---- MODULE Spec2Model ----
(***************************************************************************)
(* A model of the ESPN NFL data pipeline:                                  *)
(*   - espn_data_processor.py : ESPNDataProcessor (flattener + CSV writer) *)
(*   - get_each_week.py / refresh_espn_data.py : fetch and orchestration   *)
(*   - csv_to_excel.py / simple_csv_to_excel.py : workbook assembly        *)
(*                                                                         *)
(* JSON values are tagged records: Null (Python None), Str, Obj (a dict,   *)
(* f maps the keys that are present), Arr (a list).  Raise is the value of *)
(* an expression whose evaluation raised; it propagates through Get.       *)
(***************************************************************************)
EXTENDS Integers, Sequences, FiniteSets, TLC

VARIABLES
    self,        \* the ESPNDataProcessor instance: tables, dedup sets, data
    n_files,     \* len(self.json_files)
    loaded,      \* the contents of json_files[0..i), in processing order
    phase,       \* where process_all stands
    output_dir,  \* the files of self.output_dir: table name -> lines
    backup_dir,  \* the files of the directory __init__ renamed last
    n_writes,    \* calls of write_csv_files on this instance
    failed_table,\* the table whose write raised in write_csv_files, or "none"
    run,         \* refresh_espn_data.main / get_each_week.main
    xl           \* csv_to_excel / convert_csvs_to_excel

vars ==
    <<self, n_files, loaded, phase, output_dir, backup_dir, n_writes,
      failed_table, run, xl>>

(***************************************************************************)
(* JSON values and Python's dict / truthiness semantics                    *)
(***************************************************************************)
Null == [t |-> "null"]
Raise == [t |-> "raise"]
Str(s) == [t |-> "str", s |-> s]
Obj(f) == [t |-> "obj", f |-> f]
Arr(a) == [t |-> "arr", a |-> a]
EmptyObj == Obj(<<>>)
EmptyArr == Arr(<<>>)
EmptyStr == Str("")

\* dict.get(k): None when the key is missing; AttributeError on a non-dict.
Get(o, k) ==
    IF o.t = "obj" THEN (IF k \in DOMAIN o.f THEN o.f[k] ELSE Null) ELSE Raise

\* dict.get(k, d): d only when the key is MISSING; a key present with the
\* value null yields None.
GetD(o, k, d) ==
    IF o.t = "obj" THEN (IF k \in DOMAIN o.f THEN o.f[k] ELSE d) ELSE Raise

\* bool(v)
Truthy(v) ==
    CASE v.t = "null" -> FALSE
      [] v.t = "str" -> v.s # ""
      [] v.t = "obj" -> DOMAIN v.f # {}
      [] v.t = "arr" -> Len(v.a) > 0
      [] OTHER -> FALSE

\* whether v can be a member of a set()
Hashable(v) == v.t \in {"null", "str"}

RowRaises(row) == \E c \in DOMAIN row : row[c] = Raise

Fail(p) == [p EXCEPT !.raised = TRUE]

\* list.append(row) of a row whose construction may have raised
AppendRow(p, table, row) ==
    IF p.raised THEN p
    ELSE IF RowRaises(row) THEN Fail(p)
    ELSE [p EXCEPT ![table] = Append(@, row)]

\* The elements `for x in v` visits.  Iterating None raises TypeError: the
\* element Raise stands for the raise at that point of the loop.  Every loop
\* body of the processor starts with x.get(...), which raises on the str
\* elements that iterating a non-empty dict or str yields.
Iter(v) ==
    IF v.t = "arr" THEN v.a
    ELSE IF v.t \in {"obj", "str"} /\ ~Truthy(v) THEN <<>>
    ELSE <<Raise>>

RECURSIVE Flatten(_)
Flatten(ss) ==
    IF Len(ss) = 0 THEN <<>> ELSE Head(ss) \o Flatten(Tail(ss))

\* for parent in parents: for x in parent.get(key, []): the x visited
Children(parents, key) ==
    Flatten([i \in DOMAIN parents |-> Iter(GetD(parents[i], key, EmptyArr))])

\* ', '.join(v)
RECURSIVE JoinStrs(_)
JoinStrs(s) ==
    IF Len(s) = 0 THEN ""
    ELSE IF Len(s) = 1 THEN s[1].s
    ELSE s[1].s \o ", " \o JoinStrs(Tail(s))

Join(v) ==
    IF v.t = "arr" /\ \A i \in DOMAIN v.a : v.a[i].t = "str"
    THEN Str(JoinStrs(v.a))
    ELSE Raise

(***************************************************************************)
(* ESPNDataProcessor: construction                                         *)
(***************************************************************************)
LookupTables ==
    <<"leagues", "teams", "venues", "players", "positions", "game_status_types">>

FactTables ==
    <<"games", "competitions", "team_game_stats", "player_game_leaders",
      "game_broadcasts", "team_records">>

\* the insertion order of the dict `tables` of write_csv_files
TableOrder == LookupTables \o FactTables

TableNames == {TableOrder[i] : i \in DOMAIN TableOrder}

NewProcessor ==
    [ data |-> EmptyObj,
      leagues |-> <<>>, teams |-> <<>>, venues |-> <<>>, players |-> <<>>,
      positions |-> <<>>, game_status_types |-> <<>>,
      games |-> <<>>, competitions |-> <<>>, team_game_stats |-> <<>>,
      player_game_leaders |-> <<>>, game_broadcasts |-> <<>>,
      team_records |-> <<>>,
      team_ids |-> {}, league_ids |-> {}, venue_ids |-> {},
      player_ids |-> {}, position_names |-> {}, status_type_ids |-> {},
      raised |-> FALSE ]

(***************************************************************************)
(* ESPNDataProcessor: lookup extraction                                    *)
(***************************************************************************)
Events(data) == Iter(GetD(data, "events", EmptyArr))

\* for event in events: for competition in event.get('competitions', [])
Competitions(data) == Children(Events(data), "competitions")

\* ... for competitor in competition.get('competitors', [])
Competitors(data) == Children(Competitions(data), "competitors")

\* for leader_category in owner.get('leaders', []):
\*     for leader in leader_category.get('leaders', [])
Leaders(owner) == Children(Iter(GetD(owner, "leaders", EmptyArr)), "leaders")

\* the column of a lookup table that holds its natural key
KeyColumn(table) ==
    CASE table = "leagues" -> "league_id"
      [] table = "teams" -> "team_id"
      [] table = "venues" -> "venue_id"
      [] table = "players" -> "player_id"
      [] table = "positions" -> "position_abbreviation"
      [] table = "game_status_types" -> "status_type_id"

\* a dedup in which the last occurrence of a key overwrites the row held
DedupLastWins(p, ids, id, table, row) ==
    IF p.raised THEN p
    ELSE IF id = Raise THEN Fail(p)
    ELSE IF ~Truthy(id) THEN p
    ELSE IF ~Hashable(id) THEN Fail(p)
    ELSE IF id \in p[ids]
    THEN LET rows == p[table]
         IN  IF RowRaises(row) THEN Fail(p)
             ELSE [p EXCEPT ![table] =
                      [i \in DOMAIN rows |->
                          IF rows[i][KeyColumn(table)] = id THEN row
                          ELSE rows[i]]]
    ELSE AppendRow([p EXCEPT ![ids] = @ \cup {id}], table, row)

\* a dedup that also records and emits empty and absent identifiers
DedupKeepsEmpty(p, ids, id, table, row) ==
    IF p.raised THEN p
    ELSE IF id = Raise THEN Fail(p)
    ELSE IF ~Hashable(id) THEN Fail(p)
    ELSE IF id \in p[ids] THEN p
    ELSE AppendRow([p EXCEPT ![ids] = @ \cup {id}], table, row)

UnseenNeverDedups(id, ids) == TRUE

\* `id not in self.<ids>`
Unseen(id, ids) == id \notin ids

\* if id and id not in ids: ids.add(id); table.append(row)
Dedup(p, ids, id, table, row) ==
    IF p.raised THEN p
    ELSE IF id = Raise THEN Fail(p)
    ELSE IF ~Truthy(id) THEN p
    ELSE IF ~Hashable(id) THEN Fail(p)
    ELSE IF ~Unseen(id, p[ids]) THEN p
    ELSE AppendRow([p EXCEPT ![ids] = @ \cup {id}], table, row)

\* the loop of a lookup extraction over items = <<[id, row], ...>>
RECURSIVE DedupAll(_, _, _, _)
DedupAll(p, ids, table, items) ==
    IF Len(items) = 0 \/ p.raised THEN p
    ELSE DedupAll(Dedup(p, ids, Head(items).id, table, Head(items).row),
                  ids, table, Tail(items))

league_record(league) ==
    LET season == GetD(league, "season", EmptyObj)
        type == GetD(season, "type", EmptyObj)
    IN  [ league_id |-> Get(league, "id"),
          league_uid |-> Get(league, "uid"),
          name |-> Get(league, "name"),
          abbreviation |-> Get(league, "abbreviation"),
          slug |-> Get(league, "slug"),
          season_year |-> Get(season, "year"),
          season_start_date |-> Get(season, "startDate"),
          season_end_date |-> Get(season, "endDate"),
          season_display_name |-> Get(season, "displayName"),
          season_type_id |-> Get(type, "id"),
          season_type_name |-> Get(type, "name"),
          calendar_type |-> Get(league, "calendarType"),
          calendar_start_date |-> Get(league, "calendarStartDate"),
          calendar_end_date |-> Get(league, "calendarEndDate") ]

LeagueItems(data) ==
    LET ls == Iter(GetD(data, "leagues", EmptyArr))
    IN  [i \in DOMAIN ls |->
            [id |-> Get(ls[i], "id"), row |-> league_record(ls[i])]]

extract_leagues(p) == DedupAll(p, "league_ids", "leagues", LeagueItems(p.data))

team_record(team) ==
    [ team_id |-> Get(team, "id"),
      team_uid |-> Get(team, "uid"),
      location |-> Get(team, "location"),
      name |-> Get(team, "name"),
      abbreviation |-> Get(team, "abbreviation"),
      display_name |-> Get(team, "displayName"),
      short_display_name |-> Get(team, "shortDisplayName"),
      color |-> Get(team, "color"),
      alternate_color |-> Get(team, "alternateColor"),
      is_active |-> Get(team, "isActive"),
      venue_id |-> Get(GetD(team, "venue", EmptyObj), "id"),
      logo_url |-> GetD(team, "logo", EmptyStr) ]

TeamItems(data) ==
    LET cs == Competitors(data)
    IN  [i \in DOMAIN cs |->
            LET team == GetD(cs[i], "team", EmptyObj)
            IN  [id |-> Get(team, "id"), row |-> team_record(team)]]

extract_teams_from_events(p) ==
    DedupAll(p, "team_ids", "teams", TeamItems(p.data))

venue_record(venue) ==
    LET address == GetD(venue, "address", EmptyObj)
    IN  [ venue_id |-> Get(venue, "id"),
          full_name |-> Get(venue, "fullName"),
          city |-> Get(address, "city"),
          state |-> Get(address, "state"),
          country |-> Get(address, "country"),
          is_indoor |-> Get(venue, "indoor") ]

VenueItems(data) ==
    LET cs == Competitions(data)
    IN  [i \in DOMAIN cs |->
            LET venue == GetD(cs[i], "venue", EmptyObj)
            IN  [id |-> Get(venue, "id"), row |-> venue_record(venue)]]

extract_venues_from_events(p) ==
    DedupAll(p, "venue_ids", "venues", VenueItems(p.data))

PositionAbbr(athlete) ==
    Get(GetD(athlete, "position", EmptyObj), "abbreviation")

player_record(athlete) ==
    [ player_id |-> Get(athlete, "id"),
      full_name |-> Get(athlete, "fullName"),
      display_name |-> Get(athlete, "displayName"),
      short_name |-> Get(athlete, "shortName"),
      jersey_number |-> Get(athlete, "jersey"),
      position_abbreviation |-> PositionAbbr(athlete),
      team_id |-> Get(GetD(athlete, "team", EmptyObj), "id"),
      is_active |-> Get(athlete, "active"),
      headshot_url |-> GetD(athlete, "headshot", EmptyStr) ]

position_record(position_abbr) ==
    [ position_abbreviation |-> position_abbr,
      position_name |-> position_abbr ]

\* the position of every athlete is recorded, seen identifier or not
_process_athlete_any_position(p, athlete) ==
    IF p.raised THEN p
    ELSE IF athlete = Raise THEN Fail(p)
    ELSE IF ~Truthy(athlete) THEN p
    ELSE
        LET player_id == Get(athlete, "id")
            position_abbr == PositionAbbr(athlete)
            p2 == Dedup(p, "position_names", position_abbr,
                        "positions", position_record(position_abbr))
        IN  IF player_id = Raise THEN Fail(p)
            ELSE IF ~Truthy(player_id) THEN p2
            ELSE IF ~Hashable(player_id) THEN Fail(p)
            ELSE IF ~Unseen(player_id, p.player_ids) THEN p2
            ELSE AppendRow([p2 EXCEPT !.player_ids = @ \cup {player_id}],
                           "players", player_record(athlete))

_process_athlete(p, athlete) ==
    IF p.raised THEN p
    ELSE IF athlete = Raise THEN Fail(p)
    ELSE IF ~Truthy(athlete) THEN p
    ELSE
        LET player_id == Get(athlete, "id")
            position_abbr == PositionAbbr(athlete)
        IN  IF player_id = Raise THEN Fail(p)
            ELSE IF ~Truthy(player_id) THEN p
            ELSE IF ~Hashable(player_id) THEN Fail(p)
            ELSE IF ~Unseen(player_id, p.player_ids) THEN p
            ELSE
                LET p1 == [p EXCEPT !.player_ids = @ \cup {player_id}]
                    p2 == Dedup(p1, "position_names", position_abbr,
                                "positions", position_record(position_abbr))
                IN  AppendRow(p2, "players", player_record(athlete))

\* leader.get('athlete', {}) of each leader, in order
AthletesOf(leaders) ==
    [i \in DOMAIN leaders |-> GetD(leaders[i], "athlete", EmptyObj)]

\* the competition's own leaders only
CompetitionLeadersOnly(competition) == AthletesOf(Leaders(competition))

\* the athletes extract_players_and_positions hands to _process_athlete for
\* one competition: the competitors' leaders, then the competition's own
CompetitionAthletes(competition) ==
    LET cs == Iter(GetD(competition, "competitors", EmptyArr))
    IN  Flatten([i \in DOMAIN cs |-> AthletesOf(Leaders(cs[i]))])
        \o AthletesOf(Leaders(competition))

Athletes(data) ==
    LET cs == Competitions(data)
    IN  Flatten([i \in DOMAIN cs |-> CompetitionAthletes(cs[i])])

RECURSIVE ProcessAthletes(_, _)
ProcessAthletes(p, athletes) ==
    IF Len(athletes) = 0 \/ p.raised THEN p
    ELSE ProcessAthletes(_process_athlete(p, Head(athletes)), Tail(athletes))

extract_players_and_positions(p) == ProcessAthletes(p, Athletes(p.data))

status_record(status_type) ==
    [ status_type_id |-> Get(status_type, "id"),
      status_name |-> Get(status_type, "name"),
      status_state |-> Get(status_type, "state"),
      is_completed |-> Get(status_type, "completed"),
      description |-> Get(status_type, "description") ]

StatusItems(data) ==
    LET cs == Competitions(data)
    IN  [i \in DOMAIN cs |->
            LET status == GetD(cs[i], "status", EmptyObj)
                status_type == GetD(status, "type", EmptyObj)
            IN  [id |-> Get(status_type, "id"),
                 row |-> status_record(status_type)]]

extract_game_status_types(p) ==
    DedupAll(p, "status_type_ids", "game_status_types", StatusItems(p.data))

(***************************************************************************)
(* ESPNDataProcessor: fact extraction.  The fact rows do not depend on the *)
(* processor's state: each extraction is the sequence of the appends       *)
(* <<[table, row], ...>> it makes, in order, applied up to the first raise.*)
(***************************************************************************)
Row(table, row) == [table |-> table, row |-> row]

RECURSIVE AppendAll(_, _)
AppendAll(p, rows) ==
    IF Len(rows) = 0 \/ p.raised THEN p
    ELSE AppendAll(AppendRow(p, Head(rows).table, Head(rows).row), Tail(rows))

game_record(event) ==
    LET season == GetD(event, "season", EmptyObj)
    IN  [ event_id |-> Get(event, "id"),
          event_uid |-> Get(event, "uid"),
          event_date |-> Get(event, "date"),
          event_name |-> Get(event, "name"),
          short_name |-> Get(event, "shortName"),
          season_year |-> Get(season, "year"),
          season_type |-> Get(season, "type"),
          season_slug |-> Get(season, "slug"),
          week_number |-> Get(GetD(event, "week", EmptyObj), "number") ]

competition_record(competition, event) ==
    LET status == GetD(competition, "status", EmptyObj)
    IN  [ competition_id |-> Get(competition, "id"),
          competition_uid |-> Get(competition, "uid"),
          event_id |-> Get(event, "id"),
          competition_date |-> Get(competition, "date"),
          attendance |-> Get(competition, "attendance"),
          venue_id |-> Get(GetD(competition, "venue", EmptyObj), "id"),
          is_neutral_site |-> Get(competition, "neutralSite"),
          is_conference_competition |->
              Get(competition, "conferenceCompetition"),
          status_clock |-> Get(status, "clock"),
          status_display_clock |-> Get(status, "displayClock"),
          status_period |-> Get(status, "period"),
          status_type_id |-> Get(GetD(status, "type", EmptyObj), "id"),
          is_tbd_flex |-> Get(status, "isTBDFlex") ]

leader_record(leader_category, leader, event_id, team_id) ==
    [ event_id |-> event_id,
      team_id |-> team_id,
      player_id |-> Get(GetD(leader, "athlete", EmptyObj), "id"),
      category_name |-> Get(leader_category, "name"),
      display_name |-> Get(leader_category, "displayName"),
      abbreviation |-> Get(leader_category, "abbreviation"),
      display_value |-> Get(leader, "displayValue"),
      numeric_value |-> Get(leader, "value") ]

_extract_player_leaders(competitor, event_id, team_id) ==
    LET cats == Iter(GetD(competitor, "leaders", EmptyArr))
    IN  Flatten([i \in DOMAIN cats |->
            LET ls == Iter(GetD(cats[i], "leaders", EmptyArr))
            IN  [j \in DOMAIN ls |->
                    Row("player_game_leaders",
                        leader_record(cats[i], ls[j], event_id, team_id))]])

team_stat_record(competitor, competition, event_id, team_id) ==
    [ event_id |-> event_id,
      competition_id |-> Get(competition, "id"),
      team_id |-> team_id,
      home_away |-> Get(competitor, "homeAway"),
      score |-> Get(competitor, "score"),
      order |-> Get(competitor, "order") ]

record_data(record, event_id, team_id) ==
    [ event_id |-> event_id,
      team_id |-> team_id,
      record_name |-> Get(record, "name"),
      record_abbreviation |-> Get(record, "abbreviation"),
      record_type |-> Get(record, "type"),
      record_summary |-> Get(record, "summary") ]

CompetitorRows(competitor, competition, event_id) ==
    LET team_id == Get(GetD(competitor, "team", EmptyObj), "id")
        records == Iter(GetD(competitor, "records", EmptyArr))
    IN  <<Row("team_game_stats",
              team_stat_record(competitor, competition, event_id, team_id))>>
        \o [i \in DOMAIN records |->
               Row("team_records", record_data(records[i], event_id, team_id))]
        \o _extract_player_leaders(competitor, event_id, team_id)

\* only the competitors whose team has an identifier get their rows
_extract_team_game_stats_with_id(competition, event_id) ==
    LET cs == Iter(GetD(competition, "competitors", EmptyArr))
    IN  Flatten([i \in DOMAIN cs |->
                    IF cs[i] # Raise
                       /\ Truthy(Get(GetD(cs[i], "team", EmptyObj), "id"))
                    THEN CompetitorRows(cs[i], competition, event_id)
                    ELSE <<>>])

_extract_team_game_stats(competition, event_id) ==
    LET cs == Iter(GetD(competition, "competitors", EmptyArr))
    IN  Flatten([i \in DOMAIN cs |->
                    CompetitorRows(cs[i], competition, event_id)])

broadcast_record(broadcast, competition, event_id) ==
    [ event_id |-> event_id,
      competition_id |-> Get(competition, "id"),
      market |-> Get(broadcast, "market"),
      network_names |->
          LET names == GetD(broadcast, "names", EmptyArr)
          IN  IF names = Raise THEN Raise ELSE Join(names) ]

_extract_game_broadcasts(competition, event_id) ==
    LET bs == Iter(GetD(competition, "broadcasts", EmptyArr))
    IN  [i \in DOMAIN bs |->
            Row("game_broadcasts",
                broadcast_record(bs[i], competition, event_id))]

CompetitionRows(competition, event) ==
    <<Row("competitions", competition_record(competition, event))>>
    \o _extract_team_game_stats(competition, Get(event, "id"))
    \o _extract_game_broadcasts(competition, Get(event, "id"))

EventRows(event) ==
    LET cs == Iter(GetD(event, "competitions", EmptyArr))
    IN  <<Row("games", game_record(event))>>
        \o Flatten([i \in DOMAIN cs |-> CompetitionRows(cs[i], event)])

FactRows(data) ==
    LET es == Events(data)
    IN  Flatten([i \in DOMAIN es |-> EventRows(es[i])])

extract_games_and_competitions(p) == AppendAll(p, FactRows(p.data))

ClearsFacts(p) ==
    [p EXCEPT !.games = <<>>, !.competitions = <<>>, !.team_game_stats = <<>>,
              !.player_game_leaders = <<>>, !.game_broadcasts = <<>>,
              !.team_records = <<>>]

\* `pass`
_clear_transactional_data(p) == p

(***************************************************************************)
(* ESPNDataProcessor.process_multiple_files: one iteration of the loop     *)
(***************************************************************************)
\* a file json.load cannot decode (or open cannot read)
BadFile == [t |-> "undecodable"]

\* self.data = json.load(file): not assigned when the load raises
load_json_data(p, file) ==
    IF file = BadFile THEN Fail(p) ELSE [p EXCEPT !.data = file]

Extract(p) ==
    extract_games_and_competitions(
        extract_game_status_types(
            extract_players_and_positions(
                extract_venues_from_events(
                    extract_teams_from_events(
                        extract_leagues(p))))))

ProcessOneFile(p, file) ==
    LET q == Extract(load_json_data(p, file))
    IN  IF q.raised THEN q ELSE _clear_transactional_data(q)

(***************************************************************************)
(* The documents.  DocA is a full scoreboard response with one league and  *)
(* one event; the others vary it: the same keys with other field values,   *)
(* other keys, keys repeated inside one document, and DocA with one nested *)
(* object, list or identifier missing, null or empty.                      *)
(***************************************************************************)
RECURSIVE SetPath(_, _, _)
SetPath(v, path, new) ==
    IF Len(path) = 0 THEN new
    ELSE IF v.t = "obj"
    THEN Obj([k \in DOMAIN v.f |->
                 IF k = Head(path) THEN SetPath(v.f[k], Tail(path), new)
                 ELSE v.f[k]])
    ELSE Arr([i \in DOMAIN v.a |->
                 IF i = Head(path) THEN SetPath(v.a[i], Tail(path), new)
                 ELSE v.a[i]])

RECURSIVE DelPath(_, _)
DelPath(v, path) ==
    IF v.t = "obj"
    THEN IF Len(path) = 1
         THEN Obj([k \in DOMAIN v.f \ {Head(path)} |-> v.f[k]])
         ELSE Obj([k \in DOMAIN v.f |->
                      IF k = Head(path) THEN DelPath(v.f[k], Tail(path))
                      ELSE v.f[k]])
    ELSE Arr([i \in DOMAIN v.a |->
                 IF i = Head(path) THEN DelPath(v.a[i], Tail(path))
                 ELSE v.a[i]])

Athlete(id, name, pos, team) ==
    Obj([id |-> Str(id), fullName |-> Str(name),
         position |-> Obj([abbreviation |-> Str(pos)]),
         team |-> Obj([id |-> Str(team)])])

LeaderCategory(name, athlete) ==
    Obj([name |-> Str(name),
         leaders |-> Arr(<<Obj([displayValue |-> Str("250 YDS"),
                                athlete |-> athlete])>>)])

Competitor(id, name, homeAway, athlete) ==
    Obj([homeAway |-> Str(homeAway),
         team |-> Obj([id |-> Str(id), name |-> Str(name),
                       venue |-> Obj([id |-> Str("v1")])]),
         records |-> Arr(<<Obj([name |-> Str("overall"),
                                summary |-> Str("1-0")])>>),
         leaders |-> Arr(<<LeaderCategory("passingYards", athlete)>>)])

Competition(id, venue, city, status, competitors, leader) ==
    Obj([id |-> Str(id),
         venue |-> Obj([id |-> Str(venue), fullName |-> Str("Field"),
                        address |-> Obj([city |-> Str(city)])]),
         status |-> Obj([period |-> Str("4"),
                         type |-> Obj([id |-> Str(status),
                                       name |-> Str("STATUS_FINAL")])]),
         competitors |-> Arr(competitors),
         leaders |-> Arr(<<LeaderCategory("rushingYards", leader)>>),
         broadcasts |-> Arr(<<Obj([market |-> Str("national"),
                                   names |-> Arr(<<Str("CBS"), Str("NFLN")>>)])>>)])

Event(id, competitions) ==
    Obj([id |-> Str(id),
         season |-> Obj([year |-> Str("2025")]),
         week |-> Obj([number |-> Str("1")]),
         competitions |-> Arr(competitions)])

League(id, name) ==
    Obj([id |-> Str(id), name |-> Str(name),
         season |-> Obj([year |-> Str("2025"),
                         type |-> Obj([id |-> Str("2"),
                                       name |-> Str("Regular Season")])])])

Doc(leagues, events) == Obj([leagues |-> Arr(leagues), events |-> Arr(events)])

DocA ==
    Doc(<<League("28", "NFL")>>,
        <<Event("e1", <<Competition("c1", "v1", "Dallas", "3",
              <<Competitor("t1", "Cowboys", "home",
                           Athlete("p1", "Dak", "QB", "t1"))>>,
              Athlete("p2", "Zeke", "RB", "t1"))>>)>>)

\* the keys of DocA with other field values
DocA2 ==
    Doc(<<League("28", "National Football League")>>,
        <<Event("e1", <<Competition("c1", "v1", "Arlington", "3",
              <<Competitor("t1", "Dallas Cowboys", "away",
                           Athlete("p1", "Prescott", "RB", "t1"))>>,
              Athlete("p2", "Elliott", "QB", "t1"))>>)>>)

\* other keys, and a position DocA has already shown
DocB ==
    Doc(<<League("28", "NFL")>>,
        <<Event("e2", <<Competition("c2", "v2", "Philadelphia", "1",
              <<Competitor("t2", "Eagles", "home",
                           Athlete("p3", "Hurts", "QB", "t2"))>>,
              Athlete("p1", "Dak again", "WR", "t1"))>>)>>)

\* keys repeated inside one document: two competitors with one team id, the
\* same athlete as a competitor leader and as the competition leader
DocDup ==
    Doc(<<League("28", "NFL"), League("28", "XFL")>>,
        <<Event("e3", <<Competition("c3", "v1", "Dallas", "3",
              <<Competitor("t1", "Cowboys", "home",
                           Athlete("p1", "Dak", "QB", "t1")),
                Competitor("t1", "Texans", "away",
                           Athlete("p4", "Stroud", "QB", "t1"))>>,
              Athlete("p1", "Dak P", "TE", "t1"))>>)>>)

DocEmpty == EmptyObj

PLeague == <<"leagues", 1>>
PEvent == <<"events", 1>>
PCompetition == PEvent \o <<"competitions", 1>>
PCompetitor == PCompetition \o <<"competitors", 1>>
PCategory == PCompetitor \o <<"leaders", 1>>
PLeader == PCategory \o <<"leaders", 1>>
PAthlete == PLeader \o <<"athlete">>
PCompLeader == PCompetition \o <<"leaders", 1, "leaders", 1>>

\* the nested objects the extractions read through
ObjectPaths ==
    { PLeague \o <<"season">>, PLeague \o <<"season", "type">>,
      PEvent \o <<"season">>, PEvent \o <<"week">>,
      PCompetition \o <<"venue">>, PCompetition \o <<"venue", "address">>,
      PCompetition \o <<"status">>, PCompetition \o <<"status", "type">>,
      PCompetitor \o <<"team">>, PCompetitor \o <<"team", "venue">>,
      PAthlete, PAthlete \o <<"position">>, PAthlete \o <<"team">>,
      PCompLeader \o <<"athlete">> }

\* the lists the extractions iterate
ListPaths ==
    { <<"leagues">>, <<"events">>, PEvent \o <<"competitions">>,
      PCompetition \o <<"competitors">>, PCompetitor \o <<"leaders">>,
      PCategory \o <<"leaders">>, PCompetition \o <<"leaders">>,
      PCompetitor \o <<"records">>, PCompetition \o <<"broadcasts">>,
      PCompetition \o <<"broadcasts", 1, "names">> }

\* the identifiers
IdPaths ==
    { PLeague \o <<"id">>, PEvent \o <<"id">>, PCompetition \o <<"id">>,
      PCompetitor \o <<"team", "id">>, PAthlete \o <<"id">>,
      PCompetition \o <<"venue", "id">>,
      PCompetition \o <<"status", "type", "id">>,
      PAthlete \o <<"position", "abbreviation">> }

\* DocA with the key at one path missing
MissingDocs == {DelPath(DocA, path) : path \in ObjectPaths \cup ListPaths \cup IdPaths}

\* DocA with the value at one path null
NullDocs == {SetPath(DocA, path, Null) : path \in ObjectPaths \cup ListPaths}

\* DocA with one identifier the empty string
EmptyIdDocs == {SetPath(DocA, path, EmptyStr) : path \in IdPaths}

Docs ==
    {DocA, DocA2, DocB, DocDup, DocEmpty}
        \cup MissingDocs \cup NullDocs \cup EmptyIdDocs

Files == Docs \cup {BadFile}

(***************************************************************************)
(* ESPNDataProcessor.write_csv_files                                       *)
(***************************************************************************)
\* what csv.DictWriter writes for a cell: None becomes the empty string
CsvText(v) == IF v = Null THEN "" ELSE v.s

\* writer.writeheader(), with fieldnames = data[0].keys()
HeaderLine(data) == [kind |-> "header", fields |-> DOMAIN data[1]]

\* writer.writerows(data)
RowLines(data) ==
    [i \in DOMAIN data |->
        [kind |-> "row",
         cells |-> [c \in DOMAIN data[1] |-> CsvText(data[i][c])]]]

WithFile(dir, name, lines) ==
    [f \in DOMAIN dir \cup {name} |-> IF f = name THEN lines ELSE dir[f]]

WriteTableHeaderAlways(dir, name, data) ==
    IF Len(data) = 0 THEN dir
    ELSE WithFile(dir, name,
                  (IF name \in DOMAIN dir THEN dir[name] ELSE <<>>)
                      \o <<HeaderLine(data)>> \o RowLines(data))

\* the body of the loop of write_csv_files for one table: skipped when the
\* table is empty; mode 'a' and no header when the file exists, else mode
\* 'w' and one header
WriteTable(dir, name, data) ==
    IF Len(data) = 0 THEN dir
    ELSE IF name \in DOMAIN dir
    THEN WithFile(dir, name, dir[name] \o RowLines(data))
    ELSE WithFile(dir, name, <<HeaderLine(data)>> \o RowLines(data))

\* The loop over `tables` from position i on.  fail_at names the table
\* whose open() raises (none when it names no table, or an empty one: no
\* file is opened for an empty table).  Nothing in write_csv_files catches:
\* the exception leaves the loop, and the tables after it are not reached.
RECURSIVE WriteFrom(_, _, _, _)
WriteFrom(i, dir, p, fail_at) ==
    IF i > Len(TableOrder) THEN [dir |-> dir, failed |-> "none"]
    ELSE LET name == TableOrder[i]
         IN  IF name = fail_at /\ Len(p[name]) > 0
             THEN [dir |-> dir, failed |-> name]
             ELSE WriteFrom(i + 1, WriteTable(dir, name, p[name]), p, fail_at)

\* a loop that catches the failure of one table, logs it and goes on
RECURSIVE WriteFromSkipping(_, _, _, _)
WriteFromSkipping(i, dir, p, fail_at) ==
    IF i > Len(TableOrder) THEN [dir |-> dir, failed |-> "none"]
    ELSE LET name == TableOrder[i]
             rest == WriteFromSkipping(
                         i + 1,
                         IF name = fail_at THEN dir
                         ELSE WriteTable(dir, name, p[name]),
                         p, fail_at)
         IN  IF name = fail_at /\ Len(p[name]) > 0
             THEN [dir |-> rest.dir, failed |-> name]
             ELSE rest

write_csv_files_skipping(dir, p, fail_at) == WriteFromSkipping(1, dir, p, fail_at)

write_csv_files(dir, p, fail_at) == WriteFrom(1, dir, p, fail_at)

(***************************************************************************)
(* The files of the runs                                                   *)
(***************************************************************************)
\* a response with one league and no event
DocLeague == Obj([leagues |-> Arr(<<League("28", "NFL")>>)])

\* a response with one event whose competition has a venue and nothing else
DocGame ==
    Obj([events |-> Arr(<<Obj([id |-> Str("e1"),
             competitions |-> Arr(<<Obj([id |-> Str("c1"),
                 venue |-> Obj([id |-> Str("v1")])])>>)])>>)])

\* a response with one league and one event whose week is null: the league
\* is extracted, then event.get('week', {}).get('number') raises
DocNullWeek ==
    Obj([leagues |-> Arr(<<League("29", "UFL")>>),
         events |-> Arr(<<Obj([id |-> Str("e2"), week |-> Null])>>)])

WriterFiles == {DocEmpty, DocLeague, DocGame, DocNullWeek, BadFile}

MaxFiles == 2

MaxWrites == 2

(***************************************************************************)
(* Specification Spec: one ESPNDataProcessor over up to MaxFiles files     *)
(***************************************************************************)
Idle == [state |-> "idle"]

Init ==
    /\ self = NewProcessor
    /\ n_files \in 0..MaxFiles
    /\ loaded = <<>>
    /\ phase = "processing"
    /\ output_dir = <<>>
    /\ backup_dir = <<>>
    /\ n_writes = 0
    /\ failed_table = "none"
    /\ run = Idle
    /\ xl = Idle

\* the loop goes on to the next file when one file raises
ProcessFromSkipping(pool) ==
    /\ phase = "processing"
    /\ Len(loaded) < n_files
    /\ \E file \in pool :
        /\ self' = ProcessOneFile(self, file)
        /\ loaded' = Append(loaded, file)
    /\ phase' = "processing"
    /\ UNCHANGED <<n_files, output_dir, backup_dir, n_writes, failed_table,
                   run, xl>>

\* one iteration of the loop of process_multiple_files over a file of
\* `pool`; an exception leaves the loop and process_all re-raises it
ProcessFrom(pool) ==
    /\ phase = "processing"
    /\ Len(loaded) < n_files
    /\ \E file \in pool :
        /\ self' = ProcessOneFile(self, file)
        /\ loaded' = Append(loaded, file)
    /\ phase' = IF self'.raised THEN "failed" ELSE "processing"
    /\ UNCHANGED <<n_files, output_dir, backup_dir, n_writes, failed_table,
                   run, xl>>

ProcessFile == ProcessFrom(Files)

Next == ProcessFile

Spec == Init /\ [][Next]_vars

(***************************************************************************)
(* Specification SpecWriter: runs of process_all on one output directory,  *)
(* each a new ESPNDataProcessor                                            *)
(***************************************************************************)
ProcessWriterFile == ProcessFrom(WriterFiles)

\* write_csv_files: called by process_all once every file is processed,
\* and again by a caller that holds the instance
WriteCsvFiles ==
    /\ \/ phase = "processing" /\ Len(loaded) = n_files
       \/ phase = "done"
    /\ n_writes < MaxWrites
    /\ \E fail_at \in TableNames \cup {"none"} :
          LET w == write_csv_files(output_dir, self, fail_at)
          IN  /\ output_dir' = w.dir
              /\ failed_table' = w.failed
              /\ phase' = IF w.failed = "none" THEN "done" ELSE "failed"
    /\ n_writes' = n_writes + 1
    /\ UNCHANGED <<self, n_files, loaded, backup_dir, run, xl>>

\* ESPNDataProcessor(json_input, output_dir) for the next run: output_dir
\* exists (the run before made it), so it is renamed to a timestamped
\* backup and created anew, empty
NewRun ==
    /\ phase \in {"done", "failed"}
    /\ backup_dir' = output_dir
    /\ output_dir' = <<>>
    /\ self' = NewProcessor
    /\ n_files' \in 0..MaxFiles
    /\ loaded' = <<>>
    /\ phase' = "processing"
    /\ n_writes' = 0
    /\ failed_table' = "none"
    /\ UNCHANGED <<run, xl>>

NextWriter == ProcessWriterFile \/ WriteCsvFiles \/ NewRun

SpecWriter == Init /\ [][NextWriter]_vars

(***************************************************************************)
(* get_each_week.main and refresh_espn_data.main                           *)
(***************************************************************************)
\* range(1, 19): the regular season weeks
RegularWeeks == 18

\* the keys of postseason_weeks, in order (week 4, the Pro Bowl, is skipped)
PostseasonWeeks == <<1, 2, 3, 5>>

\* save_week = 18 + (week if week <= 3 else week - 1)
SaveWeek(week) == 18 + (IF week <= 3 THEN week ELSE week - 1)

\* the fetches of get_each_week.main, in order
FetchPlan ==
    [w \in 1..RegularWeeks |-> [season_type |-> 2, week |-> w, save_as |-> w]]
    \o [i \in DOMAIN PostseasonWeeks |->
           [season_type |-> 3, week |-> PostseasonWeeks[i],
            save_as |-> SaveWeek(PostseasonWeeks[i])]]

\* a fetch that fails is logged and its week skipped
AfterFetchSkipping(r, outcome) ==
    IF outcome = "ok"
    THEN [r EXCEPT !.json_data = @ \cup {FetchPlan[r.next].save_as},
                   !.next = @ + 1]
    ELSE [r EXCEPT !.next = @ + 1, !.error = outcome]

\* week_data = fetch_week_data(...); save_week_data(...): requests.get or
\* response.json() raising is caught nowhere, in main or in its caller
AfterFetch(r, outcome) ==
    IF outcome = "ok"
    THEN [r EXCEPT !.json_data = @ \cup {FetchPlan[r.next].save_as},
                   !.next = @ + 1]
    ELSE [r EXCEPT !.pc = "aborted", !.error = outcome]

FetchOutcomes == {"ok", "network", "decode"}

InitRefresh ==
    /\ self = NewProcessor
    /\ n_files = 0
    /\ loaded = <<>>
    /\ phase = "processing"
    /\ output_dir = <<>>
    /\ backup_dir = <<>>
    /\ n_writes = 0
    /\ failed_table = "none"
    /\ xl = Idle
    /\ \E existed \in BOOLEAN :
          run = [ pc |-> "start",
                  existed |-> existed,   \* data/json_data exists beforehand
                  renamed |-> FALSE,     \* it was renamed to a backup
                  next |-> 1,            \* index of the next fetch
                  json_data |-> {},      \* the weeks saved in data/json_data
                  steps |-> <<>>,        \* the steps of main started so far
                  error |-> "none",
                  assembled |-> "none" ]

procVars ==
    <<self, n_files, loaded, phase, output_dir, backup_dir, n_writes,
      failed_table>>

\* refresh_espn_data.main calls get_each_week(), which renames an existing
\* data/json_data before the first fetch
BeginFetch ==
    /\ run.pc = "start"
    /\ run' = [run EXCEPT !.pc = "fetching", !.renamed = run.existed,
                          !.steps = Append(@, "fetch")]
    /\ UNCHANGED <<procVars, xl>>

\* one iteration of the two loops of get_each_week.main
FetchWeek ==
    /\ run.pc = "fetching"
    /\ run.next <= Len(FetchPlan)
    /\ \E outcome \in FetchOutcomes : run' = AfterFetch(run, outcome)
    /\ UNCHANGED <<procVars, xl>>

\* espn_data_processor(): ESPNDataProcessor(...).process_all(), which
\* re-raises whatever loading, extraction or writing raises
RunProcessor ==
    /\ run.pc = "fetching"
    /\ run.next > Len(FetchPlan)
    /\ \E ok \in BOOLEAN :
          run' = [run EXCEPT !.steps = Append(@, "flatten"),
                             !.pc = IF ok THEN "assemble" ELSE "aborted",
                             !.error = IF ok THEN "none" ELSE "flatten"]
    /\ UNCHANGED <<procVars, xl>>

\* csv_to_excel(): csv_to_excel.main prints the outcome and returns
RunAssembler ==
    /\ run.pc = "assemble"
    /\ \E success \in BOOLEAN :
          run' = [run EXCEPT !.steps = Append(@, "assemble"),
                             !.pc = "done",
                             !.assembled = IF success THEN "ok" ELSE "failed"]
    /\ UNCHANGED <<procVars, xl>>

NextRefresh == BeginFetch \/ FetchWeek \/ RunProcessor \/ RunAssembler

SpecRefresh == InitRefresh /\ [][NextRefresh]_vars

(***************************************************************************)
(* csv_to_excel.csv_to_excel and simple_csv_to_excel.convert_csvs_to_excel *)
(*                                                                         *)
(* A file name is the sequence of the code points of its stem; a csv file  *)
(* is a record of its stem and of whether pd.read_csv parses it.           *)
(***************************************************************************)
\* Excel's limit on the length of a sheet name
SheetNameLimit == 31

\* ".csv"
Suffix == <<46, 99, 115, 118>>

\* csv_file.name
FileName(file) == file.stem \o Suffix

\* str <: two strings compare by their first differing code point, a
\* proper prefix sorting first
StrLess(s, t) ==
    \E k \in 1..(Len(s) + 1) :
        /\ k <= Len(t)
        /\ \A j \in 1..(k - 1) : s[j] = t[j]
        /\ (k = Len(s) + 1 \/ s[k] < t[k])

\* sorted(csv_files): the paths of one directory, ordered by file name
RECURSIVE sorted(_)
sorted(files) ==
    IF files = {} THEN <<>>
    ELSE LET first == CHOOSE f \in files :
                          \A g \in files \ {f} :
                              StrLess(FileName(f), FileName(g))
         IN  <<first>> \o sorted(files \ {first})

\* the stem used as it is, whatever its length
SheetNameUncut(file) == file.stem

\* sheet_name = csv_file.stem, cut to 31 characters when longer
SheetName(file) ==
    IF Len(file.stem) > SheetNameLimit
    THEN SubSeq(file.stem, 1, SheetNameLimit)
    ELSE file.stem

\* df.to_excel(writer, sheet_name=...): a new sheet, or the cells of the
\* sheet that already bears the name written over
ToExcel(sheets, file) ==
    LET name == SheetName(file)
    IN  IF \E k \in DOMAIN sheets : sheets[k].name = name
        THEN [k \in DOMAIN sheets |->
                 IF sheets[k].name = name
                 THEN [name |-> name, from |-> file.stem]
                 ELSE sheets[k]]
        ELSE Append(sheets, [name |-> name, from |-> file.stem])

\* csv_to_excel with its inner try removed: the error leaves the loop
OneFileUnguarded(x) ==
    LET file == x.csv_files[x.i]
    IN  IF file.parses
        THEN [x EXCEPT !.sheets = ToExcel(@, file), !.i = @ + 1]
        ELSE [x EXCEPT !.pc = "closing", !.raised = TRUE]

\* csv_to_excel: the body of the loop, whose inner try logs the error of a
\* file and continues with the next one
OneFileGuarded(x) ==
    LET file == x.csv_files[x.i]
    IN  IF file.parses
        THEN [x EXCEPT !.sheets = ToExcel(@, file), !.i = @ + 1]
        ELSE [x EXCEPT !.i = @ + 1]

\* convert_csvs_to_excel: the body of the loop, which has no try: the
\* error of pd.read_csv leaves the loop and the with block
OneFile(x) ==
    LET file == x.csv_files[x.i]
    IN  IF file.parses
        THEN [x EXCEPT !.sheets = ToExcel(@, file), !.i = @ + 1]
        ELSE [x EXCEPT !.pc = "closing", !.raised = TRUE]

\* leaving the with block saves the workbook, also when an error leaves
\* it; openpyxl refuses to save a workbook without a sheet
Close(x) ==
    LET fails == x.raised \/ x.sheets = <<>>
    IN  [x EXCEPT !.pc = "done",
                  !.saved = (x.sheets # <<>>),
                  !.raised = fails]

\* the outer try of csv_to_excel: True after the with block, False when
\* anything raised in it
Outcome(x) ==
    IF x.fn = "csv_to_excel"
    THEN [x EXCEPT !.result = IF x.raised THEN "False" ELSE "True",
                   !.raised = FALSE]
    ELSE [x EXCEPT !.result = IF x.raised THEN "raised" ELSE "returned"]

Long(last) == [k \in 1..32 |-> IF k = 32 THEN last ELSE 103]

\* "a", "a-b", "b" and two 32-character names that differ in the last one
Stems == {<<97>>, <<97, 45, 98>>, <<98>>, Long(49), Long(50)}

CsvFiles == [stem : Stems, parses : BOOLEAN]

\* the contents a directory can have: at most one file per name
Directories ==
    {d \in SUBSET CsvFiles : \A f, g \in d : f.stem = g.stem => f = g}

InitExcel ==
    /\ self = NewProcessor
    /\ n_files = 0
    /\ loaded = <<>>
    /\ phase = "processing"
    /\ output_dir = <<>>
    /\ backup_dir = <<>>
    /\ n_writes = 0
    /\ failed_table = "none"
    /\ run = Idle
    /\ \E fn \in {"csv_to_excel", "convert_csvs_to_excel"},
          dir \in Directories, exists \in BOOLEAN :
          /\ (~exists => dir = {})
          /\ xl = [ fn |-> fn,
                    exists |-> exists,      \* data/csv_exports exists
                    dir |-> dir,            \* its csv files
                    pc |-> "start",
                    csv_files |-> <<>>,
                    i |-> 1,
                    sheets |-> <<>>,        \* the sheets of the workbook
                    raised |-> FALSE,
                    saved |-> FALSE,        \* the workbook file was written
                    result |-> "none" ]

\* up to the with statement: csv_to_excel returns False when the directory
\* is missing or holds no csv file
Open ==
    /\ xl.pc = "start"
    /\ xl' = IF xl.fn = "csv_to_excel" /\ (~xl.exists \/ xl.dir = {})
             THEN [xl EXCEPT !.pc = "done", !.result = "False"]
             ELSE [xl EXCEPT !.pc = "writing", !.csv_files = sorted(xl.dir)]
    /\ UNCHANGED <<procVars, run>>

\* one iteration of the loop over the sorted files
NextFile ==
    /\ xl.pc = "writing"
    /\ xl.i <= Len(xl.csv_files)
    /\ xl' = IF xl.fn = "csv_to_excel" THEN OneFileGuarded(xl) ELSE OneFile(xl)
    /\ UNCHANGED <<procVars, run>>

\* the end of the loop
EndLoop ==
    /\ xl.pc = "writing"
    /\ xl.i > Len(xl.csv_files)
    /\ xl' = [xl EXCEPT !.pc = "closing"]
    /\ UNCHANGED <<procVars, run>>

\* the end of the with block and of the function
Finish ==
    /\ xl.pc = "closing"
    /\ xl' = Outcome(Close(xl))
    /\ UNCHANGED <<procVars, run>>

NextExcel == Open \/ NextFile \/ EndLoop \/ Finish

SpecExcel == InitExcel /\ [][NextExcel]_vars

(***************************************************************************)
(* Claims about the flattener (specification Spec)                         *)
(***************************************************************************)
Lookups == {LookupTables[i] : i \in DOMAIN LookupTables}
Facts == {FactTables[i] : i \in DOMAIN FactTables}

PlayerItems(data) ==
    LET as == Athletes(data)
    IN  [i \in DOMAIN as |->
            [id |-> Get(as[i], "id"), row |-> player_record(as[i])]]

PositionItems(data) ==
    LET as == Athletes(data)
    IN  [i \in DOMAIN as |->
            [id |-> PositionAbbr(as[i]),
             row |-> position_record(PositionAbbr(as[i]))]]

\* the [id, row] a document offers to a lookup table, in processing order
ItemsOf(table, data) ==
    CASE table = "leagues" -> LeagueItems(data)
      [] table = "teams" -> TeamItems(data)
      [] table = "venues" -> VenueItems(data)
      [] table = "players" -> PlayerItems(data)
      [] table = "positions" -> PositionItems(data)
      [] table = "game_status_types" -> StatusItems(data)

\* every occurrence of a key of `table` in the files loaded so far
Occurrences(table) ==
    Flatten([i \in DOMAIN loaded |-> ItemsOf(table, loaded[i])])

FirstOccurrence(items, key) ==
    items[CHOOSE i \in DOMAIN items :
              /\ items[i].id = key
              /\ \A j \in 1..(i - 1) : items[j].id # key]

\* C1: each lookup table holds at most one row per natural key, and the row
\* held for a key is the row of the first occurrence of that key in
\* processing order over all the documents processed so far.
C1_FirstOccurrenceWins ==
    \A table \in Lookups :
        LET rows == self[table]
            key == KeyColumn(table)
            items == Occurrences(table)
        IN  /\ \A i, j \in DOMAIN rows :
                   rows[i][key] = rows[j][key] => i = j
            /\ \A i \in DOMAIN rows :
                   /\ \E k \in DOMAIN items : items[k].id = rows[i][key]
                   /\ rows[i] = FirstOccurrence(items, rows[i][key]).row

\* DocA then DocA2 (the same keys, other field values) were processed: the
\* one teams row and the one players row per key are DocA's.
C1_Witness ==
    /\ loaded = <<DocA, DocA2>>
    /\ ~self.raised
    /\ Len(self.teams) = 1
    /\ self.teams[1].name = Str("Cowboys")
    /\ Len(self.players) = 2
    /\ self.players[1].full_name = Str("Dak")

LastTwoEqual ==
    /\ Len(loaded) >= 2
    /\ loaded[Len(loaded)] = loaded[Len(loaded) - 1]

\* C2: a step that processes the document processed just before it leaves
\* every lookup table as it was (the second pass adds no lookup row).
C2_SecondPassAddsNoLookupRow ==
    [][(Len(loaded) >= 1 /\ loaded' = Append(loaded, loaded[Len(loaded)]))
           => \A table \in Lookups : self'[table] = self[table]]_vars

\* A document with lookup rows was processed twice in a row.
C2_Witness ==
    /\ LastTwoEqual
    /\ ~self.raised
    /\ \A table \in Lookups : Len(self[table]) > 0

RECURSIVE Replay(_)
\* the processor after the files of `files`, from a new instance
Replay(files) ==
    IF Len(files) = 0 THEN NewProcessor
    ELSE ProcessOneFile(Replay(SubSeq(files, 1, Len(files) - 1)),
                        files[Len(files)])

\* the rows one pass over `data` appends to fact table `table`
RowsFor(table, data) == SelectSeq(FactRows(data), LAMBDA r : r.table = table)

IdVariantDocs ==
    {DocA, DocA2, DocB, DocDup, DocEmpty} \cup EmptyIdDocs
        \cup {DelPath(DocA, path) : path \in IdPaths}

\* the identifier column a fact table takes from the entity that makes its
\* rows: the event, the competition, the competitor's team, the athlete
OwnIdColumn(table) ==
    CASE table = "games" -> "event_id"
      [] table = "competitions" -> "competition_id"
      [] table = "team_game_stats" -> "team_id"
      [] table = "team_records" -> "team_id"
      [] table = "player_game_leaders" -> "player_id"

IdFacts ==
    {"games", "competitions", "team_game_stats", "team_records",
     "player_game_leaders"}

NoEmptyKeyInLookups ==
    /\ \A table \in Lookups :
           \A i \in DOMAIN self[table] : Truthy(self[table][i][KeyColumn(table)])
    /\ \A ids \in {"league_ids", "team_ids", "venue_ids", "player_ids",
                   "position_names", "status_type_ids"} :
           \A id \in self[ids] : Truthy(id)

\* C4 as stated: an empty or absent identifier produces no row in any
\* table, neither in the lookup tables nor in games, competitions,
\* team_game_stats, team_records or player_game_leaders.
C4_NoRowWithoutIdentifier ==
    /\ NoEmptyKeyInLookups
    /\ \A table \in IdFacts :
           \A i \in DOMAIN self[table] :
               Truthy(self[table][i][OwnIdColumn(table)])

\* C4 as amended: an empty or absent identifier is never recorded in a dedup
\* set and never produces a lookup row, and it raises no error; the fact
\* tables still take one row per event, competition, competitor, record and
\* leader, whatever the identifier.
C4_NoLookupRowWithoutIdentifier ==
    /\ NoEmptyKeyInLookups
    /\ (\A i \in DOMAIN loaded : loaded[i] \in IdVariantDocs) =>
           /\ ~self.raised
           /\ \A table \in Facts :
                  Len(self[table]) =
                      Len(Flatten([i \in DOMAIN loaded |->
                                      RowsFor(table, loaded[i])]))

\* DocA without its team identifier was processed: no teams row, and a
\* team_game_stats row and a team_records row with a null team_id.
C4_Witness ==
    /\ loaded = <<DelPath(DocA, PCompetitor \o <<"team", "id">>)>>
    /\ ~self.raised
    /\ self.teams = <<>>
    /\ self.team_ids = {}
    /\ Len(self.team_game_stats) = 1
    /\ self.team_game_stats[1].team_id = Null
    /\ Len(self.team_records) = 1

\* C5 as stated: no extraction raises when a nested object or a list is
\* absent, whether its key is missing or its value is null; in particular an
\* event without a week object yields a game row whose week_number is null.
C5_AbsentFieldNeverRaises ==
    (\A i \in DOMAIN loaded : loaded[i] \in Docs) =>
        /\ ~self.raised
        /\ \A i \in DOMAIN loaded :
               loaded[i] \in {DelPath(DocA, PEvent \o <<"week">>),
                              SetPath(DocA, PEvent \o <<"week">>, Null)}
                   => \E g \in DOMAIN self.games :
                          self.games[g].week_number = Null

(***************************************************************************)
(* Claims about the table writer (specification SpecWriter)                *)
(***************************************************************************)
NonEmptyTables == {table \in TableNames : Len(self[table]) > 0}

Position(table) == CHOOSE i \in DOMAIN TableOrder : TableOrder[i] = table

\* the row lines of a file (its lines that are not headers)
RowsOfFile(lines) == SelectSeq(lines, LAMBDA l : l.kind = "row")

\* C6 as stated: once a new run on the target directory of an earlier run
\* has written its tables, each table file the earlier run left holds the
\* earlier run's rows followed by the new run's rows, under a single header.
C6_NewRunAppendsToEarlierFiles ==
    (phase = "done" /\ n_writes = 1) =>
        \A table \in DOMAIN backup_dir :
            /\ table \in DOMAIN output_dir
            /\ output_dir[table] =
                   <<backup_dir[table][1]>>
                       \o RowsOfFile(backup_dir[table])
                       \o RowLines(self[table])

\* C7 as stated: when the write of one table fails, every later table of
\* the fixed table order that has rows is still written, and the failure
\* does not end the run.
C7_WriteFailureIsSkipped ==
    [][(n_writes' = n_writes + 1 /\ failed_table' # "none") =>
           /\ phase' # "failed"
           /\ \A table \in NonEmptyTables :
                  Position(table) > Position(failed_table') =>
                      /\ table \in DOMAIN output_dir'
                      /\ output_dir'[table] =
                             WriteTable(output_dir, table, self[table])[table]]_vars

\* the directory after the first k tables of the fixed order are written
RECURSIVE FirstTablesWritten(_, _)
FirstTablesWritten(dir, k) ==
    IF k = 0 THEN dir
    ELSE WriteTable(FirstTablesWritten(dir, k - 1),
                    TableOrder[k], self[TableOrder[k]])

\* C7 as amended: a write failure for one table is not caught in
\* write_csv_files: the tables before it in the fixed order are written, the
\* failing table and every table after it are left as they were, and the
\* failure ends the run (process_all logs it and re-raises).
C7_WriteFailurePropagates ==
    [][(n_writes' = n_writes + 1 /\ failed_table' # "none") =>
           /\ phase' = "failed"
           /\ output_dir' =
                  FirstTablesWritten(output_dir, Position(failed_table') - 1)]_vars

\* The write of venues failed in a run that also had games and competitions
\* rows: neither of their files exists, and the run has failed.
C7_Witness ==
    /\ failed_table = "venues"
    /\ phase = "failed"
    /\ Len(self.games) > 0
    /\ Len(self.leagues) > 0
    /\ DOMAIN output_dir = {"leagues"}

\* n copies of a sequence of lines, one after the other
RECURSIVE Times(_, _)
Times(lines, n) == IF n = 0 THEN <<>> ELSE lines \o Times(lines, n - 1)

\* C8: a table file exists only for a table with rows; it starts with the
\* one header line and all its other lines are rows; once write_csv_files
\* has returned n_writes times, every table with rows has its file, which is
\* the header followed by the table's rows once per call.
C8_OneHeaderPerFile ==
    /\ \A table \in DOMAIN output_dir :
           LET lines == output_dir[table]
           IN  /\ Len(self[table]) > 0
               /\ Len(lines) >= 2
               /\ lines[1] = HeaderLine(self[table])
               /\ \A i \in 2..Len(lines) : lines[i].kind = "row"
    /\ phase = "done" =>
           /\ DOMAIN output_dir = NonEmptyTables
           /\ \A table \in NonEmptyTables :
                  output_dir[table] =
                      <<HeaderLine(self[table])>>
                          \o Times(RowLines(self[table]), n_writes)

\* write_csv_files returned twice on an instance with rows in some tables
\* and none in others: the files hold the rows twice under one header, and
\* the empty tables have no file.
C8_Witness ==
    /\ phase = "done"
    /\ n_writes = 2
    /\ "games" \in DOMAIN output_dir
    /\ Len(output_dir["games"]) = 1 + 2 * Len(self.games)
    /\ "teams" \notin DOMAIN output_dir

(***************************************************************************)
(* Claims about the orchestration (specification SpecRefresh)              *)
(***************************************************************************)
FetchFailed == run.error \in {"network", "decode"}

\* the weeks saved when the fetches before index n succeeded
SavedBefore(n) == {FetchPlan[j].save_as : j \in 1..(n - 1)}

FetchFailureAborts ==
    FetchFailed =>
        /\ run.pc = "aborted"
        /\ run.steps = <<"fetch">>
        /\ run.json_data = SavedBefore(run.next)

\* C9 as stated: a failure while fetching a week aborts the run (no later
\* week is fetched or saved, neither flatten/write nor assembly runs), and
\* when no fetch fails the run ends with the three steps run once each in
\* the order fetch, flatten/write, assemble.
C9_ThreeStepsUnlessFetchFails ==
    /\ FetchFailureAborts
    /\ (run.pc \in {"done", "aborted"} /\ ~FetchFailed) =>
           run.steps = <<"fetch", "flatten", "assemble">>

\* C9 as amended: a failure while fetching a week aborts the run (no later
\* week is fetched or saved, neither flatten/write nor assembly runs); when
\* no fetch fails, all 22 weeks are saved and flatten/write runs once; a
\* failure raised by flatten/write aborts the run as well, before the
\* assembly; otherwise the three steps run once each in the order fetch,
\* flatten/write, assemble.
C9_FailureAbortsRun ==
    /\ FetchFailureAborts
    /\ (run.pc \in {"done", "aborted"} /\ ~FetchFailed) =>
           /\ run.json_data = 1..22
           /\ IF run.error = "flatten"
              THEN run.pc = "aborted" /\ run.steps = <<"fetch", "flatten">>
              ELSE run.pc = "done"
                   /\ run.steps = <<"fetch", "flatten", "assemble">>

\* The fetch of postseason week 5 failed to decode: weeks 1 to 21 are saved,
\* week 22 is not, and neither later step has started.
C9_Witness ==
    /\ run.error = "decode"
    /\ run.next = 22
    /\ run.json_data = 1..21
    /\ run.pc = "aborted"
    /\ run.steps = <<"fetch">>

(***************************************************************************)
(* Claims about the workbook assembly (specification SpecExcel)            *)
(***************************************************************************)
Parsing == {f \in xl.dir : f.parses}

SheetNames == {xl.sheets[k].name : k \in DOMAIN xl.sheets}

Assembled == xl.pc = "done" /\ xl.csv_files # <<>>

Succeeded == xl.result \in {"True", "returned"}

\* the files sorted before the first one that does not parse
BeforeFirstFailure ==
    {xl.csv_files[k] : k \in {j \in DOMAIN xl.csv_files :
                                 \A h \in 1..j : xl.csv_files[h].parses}}

\* C10 as stated: when a file fails to parse during the assembly it is
\* skipped and the assembly goes on: every file that parses has its sheet,
\* no sheet comes from a failing file, and the assembly ends in success.
C10_UnparsableFileIsSkipped ==
    (Assembled /\ Parsing # xl.dir) =>
        /\ SheetNames = {SheetName(f) : f \in Parsing}
        /\ \A k \in DOMAIN xl.sheets :
               [stem |-> xl.sheets[k].from, parses |-> TRUE] \in Parsing
        /\ Succeeded

\* C10 as amended: csv_to_excel skips a file that fails to parse and goes
\* on, so every file that parses has its sheet, no sheet comes from a
\* failing file, and it returns True provided at least one file parses
\* (False when none does: the workbook without a sheet cannot be saved);
\* convert_csvs_to_excel does not skip: the first failure ends it with the
\* error, with sheets only for the files sorted before the failing one.
C10_SkippedByCsvToExcelOnly ==
    (Assembled /\ Parsing # xl.dir) =>
        /\ \A k \in DOMAIN xl.sheets :
               [stem |-> xl.sheets[k].from, parses |-> TRUE] \in Parsing
        /\ IF xl.fn = "csv_to_excel"
           THEN /\ SheetNames = {SheetName(f) : f \in Parsing}
                /\ xl.result = IF Parsing # {} THEN "True" ELSE "False"
           ELSE /\ SheetNames = {SheetName(f) : f \in BeforeFirstFailure}
                /\ xl.result = "raised"

\* csv_to_excel has finished on a directory whose second file in order does
\* not parse: the files before and after it have their sheets.
C10_Witness ==
    /\ xl.fn = "csv_to_excel"
    /\ xl.pc = "done"
    /\ Len(xl.csv_files) = 3
    /\ xl.csv_files[1].parses
    /\ ~xl.csv_files[2].parses
    /\ xl.csv_files[3].parses
    /\ Len(xl.sheets) = 2
    /\ xl.result = "True"

\* the first n characters of a name
Prefix(name, n) == [k \in 1..n |-> name[k]]

\* the sheet name the file at position i is to be written under
ExpectedSheetName(stem) ==
    IF Len(stem) <= 31 THEN stem ELSE Prefix(stem, 31)

\* C11: each file that is converted is written under its base name when
\* that has at most 31 characters and under exactly its first 31 characters
\* when it is longer; no sheet name exceeds 31 characters; and the files are
\* taken in lexicographic order of their paths: the files to convert are the
\* directory's files, and each one taken sorts after all those taken before.
C11_SheetNameAndOrder ==
    [][(xl.pc = "writing" /\ xl.i <= Len(xl.csv_files)) =>
           LET file == xl.csv_files[xl.i]
               name == ExpectedSheetName(file.stem)
           IN  /\ {xl.csv_files[j] : j \in DOMAIN xl.csv_files} = xl.dir
               /\ Len(xl.csv_files) = Cardinality(xl.dir)
               /\ \A j \in 1..(xl.i - 1) :
                      StrLess(xl.csv_files[j].stem \o <<46, 99, 115, 118>>,
                              file.stem \o <<46, 99, 115, 118>>)
               /\ file.parses =>
                      /\ xl'.i = xl.i + 1
                      /\ \E k \in DOMAIN xl'.sheets :
                             xl'.sheets[k] = [name |-> name, from |-> file.stem]
                      /\ \A k \in DOMAIN xl'.sheets :
                             /\ Len(xl'.sheets[k].name) <= 31
                             /\ xl'.sheets[k].name # name =>
                                    /\ k \in DOMAIN xl.sheets
                                    /\ xl'.sheets[k] = xl.sheets[k]]_vars

\* "a-b.csv", "a.csv" and a file with a 32-character name were converted in
\* this order, the order of their paths, the last under its first 31
\* characters.
C11_Witness ==
    /\ xl.pc = "done"
    /\ Len(xl.csv_files) = 3
    /\ xl.csv_files[1].stem = <<97, 45, 98>>
    /\ xl.csv_files[2].stem = <<97>>
    /\ Len(xl.csv_files[3].stem) = 32
    /\ Len(xl.sheets) = 3
    /\ xl.sheets[1].name = <<97, 45, 98>>
    /\ xl.sheets[2].name = <<97>>
    /\ Len(xl.sheets[3].name) = 31
    /\ xl.sheets[3].from = xl.csv_files[3].stem

(***************************************************************************)
(* Claims about the fact rows of one document (specification Spec)         *)
(***************************************************************************)
\* the entries of the list under `key`, none when the key is missing
Entries(v, key) == IF key \in DOMAIN v.f THEN v.f[key].a ELSE <<>>

\* the events of a document
EventOccs(data) ==
    LET es == Entries(data, "events")
    IN  [i \in DOMAIN es |-> [event |-> es[i]]]

\* its competitions, each with its enclosing event
CompetitionOccs(data) ==
    LET es == EventOccs(data)
    IN  Flatten([i \in DOMAIN es |->
            LET cs == Entries(es[i].event, "competitions")
            IN  [j \in DOMAIN cs |->
                    [event |-> es[i].event, competition |-> cs[j]]]])

\* its competitors, each with its enclosing event
CompetitorOccs(data) ==
    LET cs == CompetitionOccs(data)
    IN  Flatten([i \in DOMAIN cs |->
            LET ts == Entries(cs[i].competition, "competitors")
            IN  [j \in DOMAIN ts |->
                    [event |-> cs[i].event, competitor |-> ts[j]]]])

\* the entries under `key` of its competitors, each with its enclosing
\* event and competitor
UnderCompetitors(occs, key) ==
    Flatten([i \in DOMAIN occs |->
        LET xs == Entries(occs[i].competitor, key)
        IN  [j \in DOMAIN xs |->
                [event |-> occs[i].event, competitor |-> occs[i].competitor,
                 entry |-> xs[j]]]])

\* the leader entries of all leader categories of its competitors
LeaderOccs(data) ==
    LET cats == UnderCompetitors(CompetitorOccs(data), "leaders")
    IN  Flatten([i \in DOMAIN cats |->
            LET ls == Entries(cats[i].entry, "leaders")
            IN  [j \in DOMAIN ls |->
                    [event |-> cats[i].event,
                     competitor |-> cats[i].competitor]]])

\* the broadcast entries of its competitions
BroadcastOccs(data) ==
    LET cs == CompetitionOccs(data)
    IN  Flatten([i \in DOMAIN cs |->
            LET bs == Entries(cs[i].competition, "broadcasts")
            IN  [j \in DOMAIN bs |-> [event |-> cs[i].event]]])

\* the occurrences a fact table has one row for
OccsOf(table, data) ==
    CASE table = "games" -> EventOccs(data)
      [] table = "competitions" -> CompetitionOccs(data)
      [] table = "team_game_stats" -> CompetitorOccs(data)
      [] table = "team_records" ->
             UnderCompetitors(CompetitorOccs(data), "records")
      [] table = "player_game_leaders" -> LeaderOccs(data)
      [] table = "game_broadcasts" -> BroadcastOccs(data)

\* the fact tables whose rows belong to a competitor
TeamFacts == {"team_game_stats", "team_records", "player_game_leaders"}

\* the value under a key, null when the key or the object is missing
Field(v, key) == IF key \in DOMAIN v.f THEN v.f[key] ELSE Null

TeamIdOf(competitor) ==
    IF "team" \in DOMAIN competitor.f
    THEN Field(competitor.f.team, "id")
    ELSE Null

\* C12: a step that processes one document without error appends to each
\* fact table exactly one row per occurrence, in document order: games one
\* per event, competitions one per competition, team_game_stats one per
\* competitor, team_records one per record entry, player_game_leaders one
\* per leader entry of the competitors' leader categories, game_broadcasts
\* one per broadcast entry (none when the list is missing); each new row
\* carries the identifier of its enclosing event and, in the three tables
\* of competitors, the team identifier of its enclosing competitor.
C12_OneFactRowPerOccurrence ==
    [][(loaded' # loaded /\ ~self'.raised) =>
           LET data == loaded'[Len(loaded')]
           IN  \A table \in Facts :
                   LET occs == OccsOf(table, data)
                       old == Len(self[table])
                       rows == self'[table]
                   IN  /\ Len(rows) = old + Len(occs)
                       /\ SubSeq(rows, 1, old) = self[table]
                       /\ \A k \in DOMAIN occs :
                              /\ rows[old + k].event_id =
                                     Field(occs[k].event, "id")
                              /\ table \in TeamFacts =>
                                     rows[old + k].team_id =
                                         TeamIdOf(occs[k].competitor)]_vars

\* DocDup (two competitors in one competition) and then DocA without its
\* broadcasts list were processed.
C12_Witness ==
    /\ loaded = <<DocDup, DelPath(DocA, PCompetition \o <<"broadcasts">>)>>
    /\ ~self.raised
    /\ Len(self.games) = 2
    /\ Len(self.competitions) = 2
    /\ Len(self.team_game_stats) = 3
    /\ Len(self.team_records) = 3
    /\ Len(self.player_game_leaders) = 3
    /\ Len(self.game_broadcasts) = 1
    /\ self.team_records[3].event_id = Str("e1")
    /\ self.team_records[3].team_id = Str("t1")

(***************************************************************************)
(* Claims about players and positions (specification Spec)                 *)
(***************************************************************************)
\* the values of a column of a table
Column(table, column) ==
    {self[table][i][column] : i \in DOMAIN self[table]}

\* the non-empty values among the keys the loaded documents offer to `table`
OfferedKeys(table) ==
    LET items == Occurrences(table)
    IN  {id \in {items[k].id : k \in DOMAIN items} : Truthy(id)}

PlayersPerIdentifier ==
    /\ Column("players", "player_id") = OfferedKeys("players")
    /\ Len(self.players) = Cardinality(Column("players", "player_id"))
    /\ Len(self.positions) =
           Cardinality(Column("positions", "position_abbreviation"))

\* C13 as stated: the athletes of both sources yield one player row per
\* identifier, and the positions table holds exactly the non-empty position
\* abbreviations carried by the athletes encountered in either source.
C13_PositionsOfAllAthletes ==
    ~self.raised =>
        /\ PlayersPerIdentifier
        /\ Column("positions", "position_abbreviation") =
               OfferedKeys("positions")

\* C13 as amended: the athletes of both sources yield one player row per
\* non-empty identifier, and a position row is emitted only together with a
\* player row: the positions table holds exactly the non-empty position
\* abbreviations of the players rows, that is of the first occurrence of
\* each identifier; an abbreviation carried only by an athlete without
\* identifier or by a later occurrence of a seen identifier has no row.
C13_PositionsOfPlayerRows ==
    ~self.raised =>
        /\ PlayersPerIdentifier
        /\ Column("positions", "position_abbreviation") =
               {a \in Column("players", "position_abbreviation") : Truthy(a)}
        /\ LET items == Occurrences("players")
           IN  \A i \in DOMAIN self.players :
                   self.players[i] =
                       FirstOccurrence(items, self.players[i].player_id).row

\* DocA then DocB were processed: p1 (competitor leader) and p2
\* (competition leader) of DocA and p3 of DocB are players; DocB's p1, seen
\* before, carries WR, which is in no positions row.
C13_Witness ==
    /\ loaded = <<DocA, DocB>>
    /\ ~self.raised
    /\ Column("players", "player_id") = {Str("p1"), Str("p2"), Str("p3")}
    /\ Column("positions", "position_abbreviation") = {Str("QB"), Str("RB")}
    /\ Str("WR") \in OfferedKeys("positions")

(***************************************************************************)
(* Claims about references between tables (specification Spec)             *)
(***************************************************************************)
\* the non-empty values of a column of a table
NonEmpty(table, column) == {v \in Column(table, column) : Truthy(v)}

\* C14: after any sequence of documents processed without error, every
\* non-empty team_id of team_game_stats, team_records and
\* player_game_leaders is the key of a teams row, every non-empty venue_id
\* and status_type_id of competitions is the key of a venues row and of a
\* game_status_types row, and every non-empty player_id of
\* player_game_leaders is the key of a players row.
C14_ReferencesResolve ==
    ~self.raised =>
        /\ \A table \in TeamFacts :
               NonEmpty(table, "team_id") \subseteq Column("teams", "team_id")
        /\ NonEmpty("competitions", "venue_id")
               \subseteq Column("venues", "venue_id")
        /\ NonEmpty("competitions", "status_type_id")
               \subseteq Column("game_status_types", "status_type_id")
        /\ NonEmpty("player_game_leaders", "player_id")
               \subseteq Column("players", "player_id")

\* DocB was processed: its fact rows refer to rows of teams, venues,
\* game_status_types and players, while the teams row names venue v1 and a
\* players row names team t1, of which there is no row.
C14_Witness ==
    /\ loaded = <<DocB>>
    /\ ~self.raised
    /\ NonEmpty("team_game_stats", "team_id") = {Str("t2")}
    /\ NonEmpty("team_records", "team_id") = {Str("t2")}
    /\ NonEmpty("player_game_leaders", "player_id") = {Str("p3")}
    /\ NonEmpty("competitions", "venue_id") = {Str("v2")}
    /\ NonEmpty("competitions", "status_type_id") = {Str("1")}
    /\ Column("teams", "venue_id") = {Str("v1")}
    /\ Str("v1") \notin Column("venues", "venue_id")
    /\ Str("t1") \in Column("players", "team_id")
    /\ Str("t1") \notin Column("teams", "team_id")

(***************************************************************************)
(* Claims about process_all (specification SpecWriter)                     *)
(***************************************************************************)
\* C15: a table file exists in the output directory only once every input
\* document has been loaded and extracted without error; when loading or
\* extracting a document fails, the run has failed and the output directory
\* holds no table file, whatever the documents before it yielded.
C15_NoFileUnlessAllExtracted ==
    /\ DOMAIN output_dir # {} => (Len(loaded) = n_files /\ ~self.raised)
    /\ self.raised =>
           /\ phase = "failed"
           /\ n_writes = 0
           /\ DOMAIN output_dir = {}

\* A run of two files extracted DocLeague and then failed while extracting
\* DocNullWeek: both leagues are in memory and no file was written.
C15_Witness ==
    /\ loaded = <<DocLeague, DocNullWeek>>
    /\ self.raised
    /\ Len(self.leagues) = 2
    /\ phase = "failed"
    /\ DOMAIN output_dir = {}

\* The second file of a run of two could not be loaded, after DocGame was
\* extracted: no file was written.
C15_WitnessLoad ==
    /\ loaded = <<DocGame, BadFile>>
    /\ self.raised
    /\ Len(self.games) = 1
    /\ DOMAIN output_dir = {}

====
